---------------------------- MODULE Spec2Model ----------------------------
(***************************************************************************)
(* Model of the RESTCONF dispatcher of lixiangyun/go-restconf              *)
(* (src/main.go): the route table built by NewRestConf through Reg, the    *)
(* request dispatch of RestConf.ServeHTTP (cleanPath, exact lookup, prefix *)
(* scan over the map, not-found), the closure Reg wraps around every       *)
(* handler, and the five resource handlers.                                *)
(*                                                                         *)
(* Strings the code inspects byte by byte (URL paths) are sequences of     *)
(* one-character strings; strings it only compares or writes (methods,     *)
(* media types, header values, bodies) are TLA+ strings.                   *)
(***************************************************************************)
EXTENDS Naturals, Sequences, FiniteSets, TLC

VARIABLES
    mux,      \* RestConf.mux: registered url -> name of the wrapped handler
    fatal,    \* TRUE once log.Fatal has terminated the process
    regs,     \* the Reg calls made so far, in order (history)
    conn,     \* one record per connection: pc, the request req, and ServeHTTP's
              \* path, url (the key matched), fun and the response rsp
    rawp,     \* cleanPath development: the raw path handed to cleanPath
    np,       \* cleanPath development: result of the latest application
    np1,      \* cleanPath development: result of the first application
    ncalls    \* cleanPath development: number of applications so far

vars == <<mux, fatal, regs, conn, rawp, np, np1, ncalls>>

(***************************************************************************)
(* Bounds of the model.                                                    *)
(***************************************************************************)
\* number of connections served concurrently
NumConn == 2
\* longest raw path enumerated for cleanPath
MaxLen == 6
\* longest sequence of Reg calls explored
MaxRegs == 3

(***************************************************************************)
(* Program constants (src/main.go, lines 60-69) and registered paths.      *)
(***************************************************************************)
APPLICATION_XRD_XML == "application/xrd+xml"
APPLICATION_DATA_XML == "application/yang-data+xml"
APPLICATION_DATA_JSON == "application/yang-data+json"

RESTCONF_PREFIX == <<"/", "r", "e", "s", "t", "c", "o", "n", "f">>
PUBLIC_XMLNS == "urn:ietf:params:xml:ns:yang:ietf-restconf"
YANG_LIBRARY_VERSION == "2016-06-21"

HOST_META_PATH ==
    <<"/", ".", "w", "e", "l", "l", "-", "k", "n", "o", "w", "n",
      "/", "h", "o", "s", "t", "-", "m", "e", "t", "a">>
DATA_PATH == RESTCONF_PREFIX \o <<"/", "d", "a", "t", "a">>
OPERATIONS_PATH ==
    RESTCONF_PREFIX \o <<"/", "o", "p", "e", "r", "a", "t", "i", "o", "n", "s">>
YANG_LIB_PATH ==
    RESTCONF_PREFIX \o <<"/", "y", "a", "n", "g", "-", "l", "i", "b", "r", "a",
                         "r", "y", "-", "v", "e", "r", "s", "i", "o", "n">>

StatusOK == 200
StatusBadRequest == 400
StatusNotFound == 404
StatusExpectationFailed == 417

\* the byte string a path stands for
RECURSIVE Str(_)
Str(s) == IF s = <<>> THEN "" ELSE Head(s) \o Str(Tail(s))

(***************************************************************************)
(* path.Clean (Go standard library), as called by cleanPath.  r counts the *)
(* bytes of path already read, out is the output buffer up to its write    *)
(* index, dotdot is the index where a ".." element must stop.              *)
(***************************************************************************)
\* end of the path element starting at r: the loop "for ; r < n && path[r] != '/'; r++"
RECURSIVE ElemEnd(_, _)
ElemEnd(path, r) ==
    IF r < Len(path) /\ path[r + 1] # "/" THEN ElemEnd(path, r + 1) ELSE r

\* write index after "out.w--; for out.w > dotdot && out.index(out.w) != '/' { out.w-- }"
RECURSIVE Backtrack(_, _, _)
Backtrack(out, w, dotdot) ==
    IF w > dotdot /\ out[w + 1] # "/" THEN Backtrack(out, w - 1, dotdot) ELSE w

RECURSIVE CleanLoop(_, _, _, _, _)
CleanLoop(path, rooted, r, out, dotdot) ==
    LET n == Len(path)
        w == Len(out)
    IN  IF r >= n THEN out
        ELSE IF path[r + 1] = "/"
        THEN \* empty path element
             CleanLoop(path, rooted, r + 1, out, dotdot)
        ELSE IF path[r + 1] = "." /\ (r + 1 = n \/ path[r + 2] = "/")
        THEN \* . element
             CleanLoop(path, rooted, r + 1, out, dotdot)
        ELSE IF /\ path[r + 1] = "."
                /\ path[r + 2] = "."
                /\ (r + 2 = n \/ path[r + 3] = "/")
        THEN \* .. element: remove to last /
             IF w > dotdot
             THEN CleanLoop(path, rooted, r + 2,
                            SubSeq(out, 1, Backtrack(out, w - 1, dotdot)), dotdot)
             ELSE IF ~rooted
             THEN LET o2 == (IF w > 0 THEN out \o <<"/">> ELSE out) \o <<".", ".">>
                  IN  CleanLoop(path, rooted, r + 2, o2, Len(o2))
             ELSE CleanLoop(path, rooted, r + 2, out, dotdot)
        ELSE \* real path element: add slash if needed, copy element
             LET sep == IF (rooted /\ w # 1) \/ (~rooted /\ w # 0)
                        THEN out \o <<"/">> ELSE out
                 e   == ElemEnd(path, r)
             IN  CleanLoop(path, rooted, e, sep \o SubSeq(path, r + 1, e), dotdot)

Clean(path) ==
    IF path = <<>> THEN <<".">>
    ELSE LET rooted == path[1] = "/"
             out == IF rooted
                    THEN CleanLoop(path, rooted, 1, <<"/">>, 1)
                    ELSE CleanLoop(path, rooted, 0, <<>>, 0)
         IN  IF out = <<>> THEN <<".">> ELSE out

\* a cleanPath that forgets the trailing slash of the raw path
cleanPathNoSlash(p) ==
    IF p = <<>> THEN <<"/">>
    ELSE Clean(IF p[1] # "/" THEN <<"/">> \o p ELSE p)

\* cleanPath (src/main.go, lines 228-240)
cleanPath(p) ==
    IF p = <<>> THEN <<"/">>
    ELSE LET p2 == IF p[1] # "/" THEN <<"/">> \o p ELSE p
             cl == Clean(p2)
         IN  IF p2[Len(p2)] = "/" /\ cl # <<"/">> THEN cl \o <<"/">> ELSE cl

\* a HasPrefix with its arguments the wrong way round
HasPrefixSwapped(s, prefix) ==
    Len(prefix) >= Len(s) /\ SubSeq(prefix, 1, Len(s)) = s

\* strings.HasPrefix(s, prefix)
HasPrefix(s, prefix) ==
    Len(s) >= Len(prefix) /\ SubSeq(s, 1, Len(prefix)) = prefix


(***************************************************************************)
(* http.ResponseWriter as the handlers use it: the headers on the wire,    *)
(* the status line (0: not written yet) and the body.  A header value ""   *)
(* is an absent header, as Header.Get reports it.                          *)
(***************************************************************************)
HeaderNames == {"Server", "Date", "Content-Type", "X-Content-Type-Options"}

EmptyRsp == [header |-> [h \in HeaderNames |-> ""], status |-> 0, body |-> ""]

\* rsp.Header().Set(k, v): headers are frozen once the status line is written
SetHeader(rsp, k, v) ==
    IF rsp.status = 0 THEN [rsp EXCEPT !.header[k] = v] ELSE rsp

\* rsp.WriteHeader(code): only the first call counts
WriteHeader(rsp, code) ==
    IF rsp.status = 0 THEN [rsp EXCEPT !.status = code] ELSE rsp

\* fmt.Fprint(rsp, s): the first write sends the status line, 200 by default
Fprint(rsp, s) ==
    LET r1 == WriteHeader(rsp, StatusOK) IN [r1 EXCEPT !.body = @ \o s]

\* http.Error(rsp, msg, code)
HttpError(rsp, msg, code) ==
    LET h1 == SetHeader(rsp, "Content-Type", "text/plain; charset=utf-8")
        h2 == SetHeader(h1, "X-Content-Type-Options", "nosniff")
    IN  Fprint(WriteHeader(h2, code), msg \o "\n")

\* http.NotFound(rsp, req)
HttpNotFound(rsp) == HttpError(rsp, "404 page not found", StatusNotFound)

\* time.Now().Format(time.RFC1123): one representative instant
DateNow == "Mon, 02 Jan 2006 15:04:05 UTC"

(***************************************************************************)
(* The encoders: xml.Marshal and json.Marshal of the two fixed values.     *)
(* err = "" is a nil error; the values are fixed and well formed, so the   *)
(* encoders do not fail.                                                   *)
(***************************************************************************)
XmlMarshalRoot ==
    [body |-> "<restconf xmlns=\"" \o PUBLIC_XMLNS \o "\"><data></data>"
              \o "<operations></operations><yang-library-version>"
              \o YANG_LIBRARY_VERSION \o "</yang-library-version></restconf>",
     err |-> ""]

JsonMarshalRoot ==
    [body |-> "{\"ietf-restconf:restconf\":{\"data\":{},\"operations\":{},"
              \o "\"yang-library-version\":\"" \o YANG_LIBRARY_VERSION \o "\"}}",
     err |-> ""]

XmlMarshalYangLibVer ==
    [body |-> "<yang-library-version xmlns=\"" \o PUBLIC_XMLNS \o "\">"
              \o YANG_LIBRARY_VERSION \o "</yang-library-version>",
     err |-> ""]

JsonMarshalYangLibVer ==
    [body |-> "{\"yang-library-version\":\"" \o YANG_LIBRARY_VERSION \o "\"}",
     err |-> ""]

(***************************************************************************)
(* The resource handlers.  req is [path, method, accept]; accept is        *)
(* req.Header.Get("Accept"), "" when the header is absent.                 *)
(***************************************************************************)
HostMetaBody ==
    "<XRD xmlns='http://docs.oasis-open.org/ns/xri/xrd-1.0'>\n"
    \o "\t\t<Link rel='restconf' href='" \o Str(RESTCONF_PREFIX) \o "'/>\n"
    \o "\t</XRD>"

\* a HostMeta that negotiates the media type before it looks at the method
HostMetaAcceptFirst(rsp, req) ==
    IF req.accept # APPLICATION_XRD_XML
    THEN HttpError(rsp, "Accept is incorrect!", StatusBadRequest)
    ELSE IF req.method # "GET"
    THEN HttpError(rsp, "method is not GET!", StatusBadRequest)
    ELSE Fprint(WriteHeader(SetHeader(rsp, "Content-Type", APPLICATION_XRD_XML),
                            StatusOK), HostMetaBody)

HostMeta(rsp, req) ==
    IF req.method # "GET"
    THEN HttpError(rsp, "method is not GET!", StatusBadRequest)
    ELSE IF req.accept # APPLICATION_XRD_XML
    THEN HttpError(rsp, "Accept is incorrect!", StatusBadRequest)
    ELSE Fprint(WriteHeader(SetHeader(rsp, "Content-Type", APPLICATION_XRD_XML),
                            StatusOK), HostMetaBody)

\* the tail shared by Root and YangLibVer: err check, Content-Type, 200, body
Respond(rsp, format, m) ==
    IF m.err # ""
    THEN HttpError(rsp, "Marshal failed!" \o m.err, StatusExpectationFailed)
    ELSE Fprint(WriteHeader(SetHeader(rsp, "Content-Type", format), StatusOK),
                m.body)

\* a Root whose switch falls back to JSON instead of rejecting the request
RootDefaultJson(rsp, req) ==
    IF req.accept = APPLICATION_DATA_XML
    THEN Respond(rsp, req.accept, XmlMarshalRoot)
    ELSE Respond(rsp, APPLICATION_DATA_JSON, JsonMarshalRoot)

Root(rsp, req) ==
    LET format == req.accept
    IN  IF format = APPLICATION_DATA_XML
        THEN Respond(rsp, format, XmlMarshalRoot)
        ELSE IF format = APPLICATION_DATA_JSON
        THEN Respond(rsp, format, JsonMarshalRoot)
        ELSE HttpError(rsp, "Accept is incorrect!", StatusBadRequest)

\* a Data that answers with an empty JSON object
DataEmptyObject(rsp, req) ==
    Fprint(WriteHeader(SetHeader(rsp, "Content-Type", APPLICATION_DATA_JSON),
                       StatusOK), "{}")

Data(rsp, req) == rsp

Operations(rsp, req) == rsp

YangLibVer(rsp, req) ==
    LET format == req.accept
    IN  IF format = APPLICATION_DATA_XML
        THEN Respond(rsp, format, XmlMarshalYangLibVer)
        ELSE IF format = APPLICATION_DATA_JSON
        THEN Respond(rsp, format, JsonMarshalYangLibVer)
        ELSE HttpError(rsp, "Accept is incorrect!", StatusBadRequest)

Handlers == {"HostMeta", "Root", "Data", "Operations", "YangLibVer"}

\* handler(rsp, req) for the handler value named h
CallHandler(h, rsp, req) ==
    CASE h = "HostMeta" -> HostMeta(rsp, req)
      [] h = "Root" -> Root(rsp, req)
      [] h = "Data" -> Data(rsp, req)
      [] h = "Operations" -> Operations(rsp, req)
      [] h = "YangLibVer" -> YangLibVer(rsp, req)

\* the closure Reg stores in the table: Server, Date, then the handler
Wrapped(h, rsp, req) ==
    CallHandler(h, SetHeader(SetHeader(rsp, "Server", "RESTCONF"),
                             "Date", DateNow), req)

(***************************************************************************)
(* The route table.  A table state is [mux, fatal]; after log.Fatal the    *)
(* process is gone and no further call happens.                            *)
(***************************************************************************)
EmptyMux == [u \in {} |-> ""]

\* a Reg that rebinds a path that is already registered
RegOverwrite(st, url, handler) ==
    [mux |-> [u \in DOMAIN st.mux \cup {url} |->
                 IF u = url THEN handler ELSE st.mux[u]],
     fatal |-> st.fatal]

RegCall(st, url, handler) ==
    IF url \notin DOMAIN st.mux
    THEN [mux |-> [u \in DOMAIN st.mux \cup {url} |->
                      IF u = url THEN handler ELSE st.mux[u]],
          fatal |-> st.fatal]
    ELSE [mux |-> st.mux, fatal |-> TRUE]

\* the five server.Reg calls of NewRestConf, in order
Registrations ==
    << [url |-> HOST_META_PATH, handler |-> "HostMeta"],
       [url |-> RESTCONF_PREFIX, handler |-> "Root"],
       [url |-> DATA_PATH, handler |-> "Data"],
       [url |-> OPERATIONS_PATH, handler |-> "Operations"],
       [url |-> YANG_LIB_PATH, handler |-> "YangLibVer"] >>

RECURSIVE RegAll(_, _)
RegAll(st, calls) ==
    IF calls = <<>> \/ st.fatal THEN st
    ELSE RegAll(RegCall(st, Head(calls).url, Head(calls).handler), Tail(calls))

NewRestConf == RegAll([mux |-> EmptyMux, fatal |-> FALSE], Registrations)

(***************************************************************************)
(* Dispatch.  Lookup is the set of table keys ServeHTTP may end up         *)
(* calling for a normalized path: the exact match when there is one,       *)
(* otherwise whichever matching key the map iteration meets first (Go      *)
(* iterates a map in no defined order), otherwise none.                    *)
(***************************************************************************)
\* a lookup without the exact-match step: the prefix scan alone
LookupScanOnly(m, path) == {url \in DOMAIN m : HasPrefix(path, url)}

Lookup(m, path) ==
    IF path \in DOMAIN m THEN {path}
    ELSE {url \in DOMAIN m : HasPrefix(path, url)}

(***************************************************************************)
(* Requests.  The raw paths cover every registered path, proper extensions *)
(* of registered paths, a path no route is a prefix of, and a raw path     *)
(* that only matches after cleanPath.                                      *)
(***************************************************************************)
Methods == {"GET", "POST"}

Accepts ==
    {APPLICATION_XRD_XML, APPLICATION_DATA_XML, APPLICATION_DATA_JSON, ""}

RawPaths ==
    { HOST_META_PATH, RESTCONF_PREFIX, DATA_PATH, OPERATIONS_PATH, YANG_LIB_PATH,
      YANG_LIB_PATH \o <<"/", "e", "x", "t", "r", "a">>,
      DATA_PATH \o <<"/", "x">>,
      <<"/", "n", "o", "p", "e">>,
      <<"r", "e", "s", "t", "c", "o", "n", "f", "/", "/", ".", "/", "d", "a", "t", "a">> }

\* path := cleanPath(req.URL.Path), for each raw path of the model
CleanedPath == [p \in RawPaths |-> cleanPath(p)]

Requests == [path : RawPaths, method : Methods, accept : Accepts]

NoReq == [path |-> <<>>, method |-> "", accept |-> ""]

Conns == 1 .. NumConn

\* a connection with no request on it
Idle ==
    [pc |-> "idle", req |-> NoReq, path |-> <<>>, url |-> <<>>, fun |-> "",
     rsp |-> EmptyRsp]

OtherVars == <<regs, rawp, np, np1, ncalls>>

\* a ServeHTTP that remembers the route a prefix scan resolved
ServeHTTPCaching(c) ==
    /\ ~fatal
    /\ conn[c].pc = "idle"
    /\ \E req \in Requests :
          LET path == CleanedPath[req.path]
              found == Lookup(mux, path)
          IN  IF found # {}
              THEN \E url \in found :
                      /\ conn' = [conn EXCEPT ![c] =
                                    [pc |-> "done", req |-> req, path |-> path,
                                     url |-> url, fun |-> mux[url],
                                     rsp |-> Wrapped(mux[url], EmptyRsp, req)]]
                      /\ mux' = [u \in DOMAIN mux \cup {path} |->
                                    IF u = path THEN mux[url] ELSE mux[u]]
              ELSE /\ conn' = [conn EXCEPT ![c] =
                                 [pc |-> "done", req |-> req, path |-> path,
                                  url |-> <<>>, fun |-> "",
                                  rsp |-> HttpNotFound(EmptyRsp)]]
                   /\ mux' = mux
    /\ UNCHANGED <<fatal, OtherVars>>

\* ServeHTTP, from the request to the complete response: cleanPath, exact
\* lookup, prefix scan, the call fun(rsp, req) of the closure Reg stored,
\* or http.NotFound
ServeHTTP(c) ==
    /\ ~fatal
    /\ conn[c].pc = "idle"
    /\ \E req \in Requests :
          LET path == CleanedPath[req.path]
              found == Lookup(mux, path)
          IN  IF found # {}
              THEN \E url \in found :
                      conn' = [conn EXCEPT ![c] =
                                 [pc |-> "done", req |-> req, path |-> path,
                                  url |-> url, fun |-> mux[url],
                                  rsp |-> Wrapped(mux[url], EmptyRsp, req)]]
              ELSE conn' = [conn EXCEPT ![c] =
                              [pc |-> "done", req |-> req, path |-> path,
                               url |-> <<>>, fun |-> "",
                               rsp |-> HttpNotFound(EmptyRsp)]]
    /\ UNCHANGED <<mux, fatal, OtherVars>>

\* the transport sends the response; the connection takes the next request
Close(c) ==
    /\ conn[c].pc = "done"
    /\ conn' = [conn EXCEPT ![c] = Idle]
    /\ UNCHANGED <<mux, fatal, OtherVars>>

Init ==
    /\ mux = NewRestConf.mux
    /\ fatal = NewRestConf.fatal
    /\ regs = Registrations
    /\ conn = [c \in Conns |-> Idle]
    /\ rawp = <<>> /\ np = <<>> /\ np1 = <<>> /\ ncalls = 0

Next == \E c \in Conns : ServeHTTP(c) \/ Close(c)

Spec == Init /\ [][Next]_vars

(***************************************************************************)
(* Registration on its own: any sequence of Reg calls on an empty table.   *)
(***************************************************************************)
RegisteredPaths ==
    {HOST_META_PATH, RESTCONF_PREFIX, DATA_PATH, OPERATIONS_PATH, YANG_LIB_PATH}

Reg(url, handler) ==
    /\ ~fatal
    /\ Len(regs) < MaxRegs
    /\ LET st == RegCall([mux |-> mux, fatal |-> fatal], url, handler)
       IN  mux' = st.mux /\ fatal' = st.fatal
    /\ regs' = Append(regs, [url |-> url, handler |-> handler])
    /\ UNCHANGED <<conn, rawp, np, np1, ncalls>>

InitReg ==
    /\ mux = EmptyMux
    /\ fatal = FALSE
    /\ regs = <<>>
    /\ conn = [c \in Conns |-> Idle]
    /\ rawp = <<>> /\ np = <<>> /\ np1 = <<>> /\ ncalls = 0

NextReg == \E url \in RegisteredPaths, handler \in Handlers : Reg(url, handler)

SpecReg == InitReg /\ [][NextReg]_vars

(***************************************************************************)
(* cleanPath on its own: every raw path of at most MaxLen bytes over a     *)
(* separator, a dot and a letter, cleaned once and then once more.         *)
(***************************************************************************)
PathBytes == {"/", ".", "a"}

RawInputs == UNION {[1 .. k -> PathBytes] : k \in 0 .. MaxLen}

ApplyCleanPath ==
    /\ ncalls < 2
    /\ np' = cleanPath(IF ncalls = 0 THEN rawp ELSE np)
    /\ np1' = IF ncalls = 0 THEN np' ELSE np1
    /\ ncalls' = ncalls + 1
    /\ UNCHANGED <<mux, fatal, regs, conn, rawp>>

InitClean ==
    /\ rawp \in RawInputs
    /\ np = <<>> /\ np1 = <<>> /\ ncalls = 0
    /\ mux = EmptyMux /\ fatal = FALSE /\ regs = <<>>
    /\ conn = [c \in Conns |-> Idle]

NextClean == ApplyCleanPath

SpecClean == InitClean /\ [][NextClean]_vars

(***************************************************************************)
(* Vocabulary of the properties.                                           *)
(***************************************************************************)
\* u is a string prefix of p
IsPrefixOf(u, p) == Len(u) <= Len(p) /\ \A i \in 1 .. Len(u) : u[i] = p[i]

\* the normalized path of the request on connection c (ServeHTTP's path)
NormPath(c) == conn[c].path

\* the response on connection c is complete
Done(c) == conn[c].pc = "done"

\* the handler NewRestConf registers under each path
RegisteredHandler(url) ==
    CASE url = HOST_META_PATH -> "HostMeta"
      [] url = RESTCONF_PREFIX -> "Root"
      [] url = DATA_PATH -> "Data"
      [] url = OPERATIONS_PATH -> "Operations"
      [] url = YANG_LIB_PATH -> "YangLibVer"

NegotiatedTypes == {APPLICATION_DATA_XML, APPLICATION_DATA_JSON}

\* the first Reg call that named url
FirstCall(url) ==
    CHOOSE i \in 1 .. Len(regs) :
        regs[i].url = url /\ \A j \in 1 .. (i - 1) : regs[j].url # url

(***************************************************************************)
(* C1.  A request whose normalized path is a registered path is given to   *)
(* the handler registered under exactly that path: not to the handler of   *)
(* a shorter route that is also a prefix, and never to not-found.          *)
(***************************************************************************)
ExactMatchDispatch ==
    \A c \in Conns :
        (Done(c) /\ NormPath(c) \in RegisteredPaths) =>
            /\ conn[c].url = NormPath(c)
            /\ conn[c].fun = RegisteredHandler(NormPath(c))
            /\ conn[c].rsp.status # StatusNotFound
            /\ conn[c].rsp =
                  Wrapped(RegisteredHandler(NormPath(c)), EmptyRsp, conn[c].req)

\* /restconf/data, reached through a raw path that needed cleaning, was
\* answered by the Data handler although /restconf is a prefix of it too
ExactMatchWitness ==
    \E c \in Conns :
        /\ Done(c)
        /\ conn[c].req.path # DATA_PATH
        /\ NormPath(c) = DATA_PATH
        /\ IsPrefixOf(RESTCONF_PREFIX, NormPath(c))
        /\ conn[c].fun = "Data"

(***************************************************************************)
(* C2.  The response is not-found exactly when no registered path is a     *)
(* string prefix of the normalized path.  When some registered path is,    *)
(* the request goes to a handler registered under one of those prefixes;   *)
(* when none is, the response is http.NotFound's and no handler ran.       *)
(***************************************************************************)
NotFoundIffNoPrefix ==
    \A c \in Conns :
        Done(c) =>
            IF \E u \in DOMAIN mux : IsPrefixOf(u, NormPath(c))
            THEN /\ conn[c].url \in DOMAIN mux
                 /\ IsPrefixOf(conn[c].url, NormPath(c))
                 /\ conn[c].fun = mux[conn[c].url]
                 /\ conn[c].fun \in Handlers
                 /\ conn[c].rsp.status # StatusNotFound
            ELSE /\ conn[c].fun = ""
                 /\ conn[c].rsp.status = StatusNotFound
                 /\ conn[c].rsp.body = "404 page not found\n"
                 /\ conn[c].rsp.header["Server"] = ""

\* /restconf/yang-library-version/extra was handled while another request,
\* for a path with no registered prefix, got not-found
NotFoundWitness ==
    \E c, d \in Conns :
        /\ Done(c)
        /\ NormPath(c) \notin DOMAIN mux
        /\ IsPrefixOf(YANG_LIB_PATH, NormPath(c))
        /\ conn[c].fun \in Handlers
        /\ Done(d)
        /\ conn[d].rsp.status = StatusNotFound

(***************************************************************************)
(* C3.  Longest-prefix resolution: the route chosen for a request is the   *)
(* longest registered path that is a prefix of the normalized path.        *)
(* The prefix scan ranges over a Go map, so a shorter prefix can win.      *)
(***************************************************************************)
LongestPrefixDispatch ==
    \A c \in Conns :
        (Done(c) /\ conn[c].fun # "") =>
            \A u \in DOMAIN mux :
                IsPrefixOf(u, NormPath(c)) => Len(u) <= Len(conn[c].url)

(***************************************************************************)
(* C4.  Every completed response, the not-found response included,         *)
(* carries Server: RESTCONF and a non-empty Date header.  ServeHTTP calls  *)
(* http.NotFound directly, outside any wrapped handler.                    *)
(***************************************************************************)
EveryResponseDecorated ==
    \A c \in Conns :
        Done(c) =>
            /\ conn[c].rsp.header["Server"] = "RESTCONF"
            /\ conn[c].rsp.header["Date"] # ""

(***************************************************************************)
(* C5.  After any sequence of Reg calls the table holds exactly the paths  *)
(* registered, each bound to the handler of the first call that named it,  *)
(* and the process has been terminated exactly when a call named a path    *)
(* that was already in the table.                                          *)
(***************************************************************************)
RegFirstWins ==
    /\ DOMAIN mux = {regs[i].url : i \in 1 .. Len(regs)}
    /\ \A url \in DOMAIN mux : mux[url] = regs[FirstCall(url)].handler
    /\ fatal <=> \E i, j \in 1 .. Len(regs) : i < j /\ regs[i].url = regs[j].url

\* a second Reg on a path, with another handler, ended the process
RegDuplicateWitness ==
    /\ fatal
    /\ \E i, j \in 1 .. Len(regs) :
          /\ i < j
          /\ regs[i].url = regs[j].url
          /\ regs[i].handler # regs[j].handler
    /\ Cardinality(DOMAIN mux) = 2

(***************************************************************************)
(* C6.  HostMeta: a method other than GET gives 400 "method is not GET!"   *)
(* whatever the Accept value; a GET gives 200 with the XRD document and    *)
(* Content-Type application/xrd+xml when Accept is application/xrd+xml,    *)
(* and 400 "Accept is incorrect!" for any other Accept value.              *)
(***************************************************************************)
HostMetaContract ==
    \A c \in Conns :
        (Done(c) /\ conn[c].fun = "HostMeta") =>
            LET req == conn[c].req
                rsp == conn[c].rsp
            IN  IF req.method # "GET"
                THEN /\ rsp.status = StatusBadRequest
                     /\ rsp.body = "method is not GET!\n"
                ELSE IF req.accept = "application/xrd+xml"
                THEN /\ rsp.status = StatusOK
                     /\ rsp.header["Content-Type"] = "application/xrd+xml"
                     /\ rsp.body =
                           "<XRD xmlns='http://docs.oasis-open.org/ns/xri/xrd-1.0'>\n"
                           \o "\t\t<Link rel='restconf' href='/restconf'/>\n\t</XRD>"
                ELSE /\ rsp.status = StatusBadRequest
                     /\ rsp.body = "Accept is incorrect!\n"

\* a POST that asked for application/xrd+xml was refused for its method
HostMetaWitness ==
    \E c \in Conns :
        /\ Done(c)
        /\ conn[c].fun = "HostMeta"
        /\ conn[c].req.method = "POST"
        /\ conn[c].req.accept = APPLICATION_XRD_XML
        /\ conn[c].rsp.body = "method is not GET!\n"

(***************************************************************************)
(* C7.  Root and YangLibVer answer 200 with Content-Type equal to the      *)
(* Accept value exactly when Accept is application/yang-data+xml or        *)
(* application/yang-data+json; any other Accept value gets 400 "Accept is  *)
(* incorrect!", no resource body and no negotiated Content-Type.           *)
(***************************************************************************)
NegotiationContract ==
    \A c \in Conns :
        (Done(c) /\ conn[c].fun \in {"Root", "YangLibVer"}) =>
            LET req == conn[c].req
                rsp == conn[c].rsp
            IN  IF req.accept \in NegotiatedTypes
                THEN /\ rsp.status = StatusOK
                     /\ rsp.header["Content-Type"] = req.accept
                     /\ rsp.body # ""
                ELSE /\ rsp.status = StatusBadRequest
                     /\ rsp.body = "Accept is incorrect!\n"
                     /\ rsp.header["Content-Type"] \notin
                           NegotiatedTypes \cup {APPLICATION_XRD_XML}

\* Root served JSON while YangLibVer refused a request with no Accept header
NegotiationWitness ==
    \E c, d \in Conns :
        /\ Done(c)
        /\ conn[c].fun = "Root"
        /\ conn[c].req.accept = APPLICATION_DATA_JSON
        /\ conn[c].rsp.status = StatusOK
        /\ Done(d)
        /\ conn[d].fun = "YangLibVer"
        /\ conn[d].req.accept = ""
        /\ conn[d].rsp.status = StatusBadRequest

(***************************************************************************)
(* C8.  A request whose normalized path is /restconf/data or               *)
(* /restconf/operations gets an empty response: no body, no status         *)
(* written, no Content-Type, while Server and Date are set.                *)
(***************************************************************************)
StubResponse ==
    \A c \in Conns :
        (Done(c) /\ NormPath(c) \in {DATA_PATH, OPERATIONS_PATH}) =>
            /\ conn[c].rsp.body = ""
            /\ conn[c].rsp.status = 0
            /\ conn[c].rsp.header["Content-Type"] = ""
            /\ conn[c].rsp.header["Server"] = "RESTCONF"
            /\ conn[c].rsp.header["Date"] # ""

\* a POST to /restconf/data and a GET of /restconf/operations both completed
StubWitness ==
    \E c, d \in Conns :
        /\ Done(c)
        /\ NormPath(c) = DATA_PATH
        /\ conn[c].req.method = "POST"
        /\ Done(d)
        /\ NormPath(d) = OPERATIONS_PATH
        /\ conn[d].req.method = "GET"
        /\ conn[d].req.accept = APPLICATION_DATA_JSON

(***************************************************************************)
(* C9.  While requests are served the route table is the one NewRestConf   *)
(* built, with exactly the five registered paths; no step changes it, and  *)
(* a step of one request changes the state of no other request.            *)
(***************************************************************************)
RouteTableReadOnly ==
    /\ [](/\ DOMAIN mux = RegisteredPaths
          /\ \A url \in RegisteredPaths : mux[url] = RegisteredHandler(url))
    /\ [][/\ mux' = mux
          /\ \A c, d \in Conns :
                c # d => (conn'[c] = conn[c] \/ conn'[d] = conn[d])]_vars

\* two connections hold the responses to two different requests, both
\* resolved by a prefix scan
ConcurrentWitness ==
    \E c, d \in Conns :
        /\ c # d
        /\ Done(c)
        /\ Done(d)
        /\ conn[c].req # conn[d].req
        /\ conn[c].fun # ""
        /\ conn[d].fun # ""
        /\ NormPath(c) \notin DOMAIN mux
        /\ NormPath(d) \notin DOMAIN mux

(***************************************************************************)
(* C10.  cleanPath's result begins with "/", has no "." segment, no ".."   *)
(* segment and no repeated separator, and ends with "/" exactly when it is *)
(* "/" or the raw path ended with "/"; the empty path maps to "/"; and     *)
(* cleaning a cleaned path changes nothing.                                *)
(***************************************************************************)
CleanPathNormal ==
    ncalls >= 1 =>
        /\ np1 # <<>>
        /\ np1[1] = "/"
        /\ \A i \in 1 .. Len(np1) :
              np1[i] = "/" =>
                 /\ ~(i + 1 <= Len(np1) /\ np1[i + 1] = "/")
                 /\ ~(/\ i + 1 <= Len(np1)
                      /\ np1[i + 1] = "."
                      /\ (i + 1 = Len(np1) \/ np1[i + 2] = "/"))
                 /\ ~(/\ i + 2 <= Len(np1)
                      /\ np1[i + 1] = "."
                      /\ np1[i + 2] = "."
                      /\ (i + 2 = Len(np1) \/ np1[i + 3] = "/"))
        /\ (np1[Len(np1)] = "/") <=>
              (np1 = <<"/">> \/ (rawp # <<>> /\ rawp[Len(rawp)] = "/"))
        /\ rawp = <<>> => np1 = <<"/">>
        /\ ncalls = 2 => np = np1

\* "../a//" was cleaned to "/a/", and cleaned again
CleanPathWitness ==
    /\ ncalls = 2
    /\ rawp = <<".", ".", "/", "a", "/", "/">>
    /\ np1 = <<"/", "a", "/">>
    /\ np = <<"/", "a", "/">>
=============================================================================
